---- MODULE Spec2Model ----
(***************************************************************************)
(* A model of the Blender look-dev exporter's material baker               *)
(* (scripts/materialBake.py, class MaterialBaker).                         *)
(*                                                                         *)
(* The host scene is the state: materials with their shader node graphs    *)
(* (nodes, links, active node), objects with their material slots,        *)
(* visibility and selection, the images, and the current .blend file.      *)
(* The baker's own fields (nonTextureInputs, textureInputs, fileFormat)    *)
(* and the position of the single synchronous run (pc and the loop         *)
(* cursors) complete it.  Python dictionaries are sequences of             *)
(* [key, val] records, so that insertion order is part of the model.       *)
(***************************************************************************)
EXTENDS Naturals, Sequences, FiniteSets, TLC

(***************************************************************************)
(* Bounds of the model.                                                    *)
(***************************************************************************)
MaxMaterials == 2
MaxObjects == 2

(***************************************************************************)
(* Names.  A node name is <<label, index>>, as the host numbers the nodes  *)
(* of one kind ("Image Texture", "Image Texture.001", ...).  The material   *)
(* names are in the order of the host's enumeration; the host keeps the    *)
(* names of two materials apart, spaces and underscores included.          *)
(***************************************************************************)
MatNames == <<"Mat A", "Mat_A", "Mat_B", "Mat_B ">>
ObjNames == <<"ObjA", "ObjB", "ObjC", "ObjD">>
None == <<"None", 0>>
PrincipledName == <<"Principled BSDF", 0>>
OutputName == <<"Material Output", 0>>

(***************************************************************************)
(* Python dict, in insertion order.                                        *)
(***************************************************************************)
DictKeys(d) == {d[i].key : i \in 1..Len(d)}

DictHas(d, k) == \E i \in 1..Len(d) : d[i].key = k

DictGet(d, k) == d[CHOOSE i \in 1..Len(d) : d[i].key = k].val

DictSet(d, k, v) ==
  IF DictHas(d, k)
  THEN [i \in 1..Len(d) |-> IF d[i].key = k THEN [key |-> k, val |-> v] ELSE d[i]]
  ELSE Append(d, [key |-> k, val |-> v])

DictDel(d, k) ==
  LET Keep(e) == e.key # k IN SelectSeq(d, Keep)

RECURSIVE DictUpdate(_, _)
DictUpdate(d, e) ==
  IF e = <<>> THEN d
  ELSE DictUpdate(DictSet(d, Head(e).key, Head(e).val), Tail(e))

(***************************************************************************)
(* The host's node graph: nodes in creation order, links, active node.     *)
(* An input socket holds at most one link: linking into a linked input     *)
(* replaces its link.                                                      *)
(***************************************************************************)
NodeInputs(type) ==
  CASE type = "BSDF_PRINCIPLED" -> <<"Base Color", "Roughness", "Normal">>
    [] type = "OUTPUT_MATERIAL" -> <<"Surface", "Volume", "Displacement">>
    [] type = "NORMAL_MAP" -> <<"Strength", "Color">>
    [] type = "DISPLACEMENT" -> <<"Height", "Midlevel", "Scale", "Normal">>
    [] type = "TEX_IMAGE" -> <<"Vector">>
    [] type = "CURVE_RGB" -> <<"Fac", "Color">>
    [] OTHER -> <<>>

NodeNames(g) == {g.nodes[i].name : i \in 1..Len(g.nodes)}

NodeOf(g, n) == g.nodes[CHOOSE i \in 1..Len(g.nodes) : g.nodes[i].name = n]

NodeType(g, n) == NodeOf(g, n).type

\* next((node for node in nodes if node.type == t), None)
FirstNodeOfType(g, t) ==
  LET idx == {i \in 1..Len(g.nodes) : g.nodes[i].type = t}
  IN IF idx = {} THEN None
     ELSE g.nodes[CHOOSE i \in idx : \A j \in idx : i <= j].name

\* socket.links of the input socket s of node n
LinksInto(g, n, s) == {l \in g.links : l.tn = n /\ l.ts = s}

\* socket.links[0]
FirstLink(g, n, s) == CHOOSE l \in LinksInto(g, n, s) : TRUE

Link(fn, fs, tn, ts) == [fn |-> fn, fs |-> fs, tn |-> tn, ts |-> ts]

\* The link is added and the input keeps the link it had
LinksNewKeepOld(g, fn, fs, tn, ts) ==
  [g EXCEPT !.links = g.links \cup {Link(fn, fs, tn, ts)}]

\* links.new(output, input)
LinksNew(g, fn, fs, tn, ts) ==
  [g EXCEPT !.links = (g.links \ LinksInto(g, tn, ts)) \cup {Link(fn, fs, tn, ts)}]

\* for link in socket.links: links.remove(link)
LinksClear(g, n, s) == [g EXCEPT !.links = g.links \ LinksInto(g, n, s)]

\* nodes.new(type): the new node's name
NewNodeName(g, label) == <<label, 100 + Len(g.nodes)>>

NodesNew(g, label, type) ==
  [g EXCEPT !.nodes = Append(g.nodes,
      [name |-> NewNodeName(g, label), type |-> type, select |-> TRUE, image |-> 0])]

(***************************************************************************)
(* The Inspector: getBSDFBakeInputs and getDisplacementBakeInputs.         *)
(* Both read a material's graph and the baker's textureInputs; they        *)
(* return the channel dictionary and the updated textureInputs.            *)
(***************************************************************************)
Entry(l) == <<l.fn, l.fs>>

\* The texture-backed channel is not recorded
TextureInputsRecordDropped(textureInputs, m, channel, val) == textureInputs

\* textureInputs[m][channel] = val, creating textureInputs[m] when absent
TextureInputsRecord(textureInputs, m, channel, val) ==
  LET inner == IF DictHas(textureInputs, m) THEN DictGet(textureInputs, m) ELSE <<>>
  IN DictSet(textureInputs, m, DictSet(inner, channel, val))

\* not any(link.from_node.type == 'TEX_IMAGE' for link in node.inputs[s].links)
NoTextureOn(g, n, s) ==
  ~ \E l \in LinksInto(g, n, s) : NodeType(g, l.fn) = "TEX_IMAGE"

\* any(input.links for input in node.inputs)
AnyInputLinked(g, n) ==
  \E i \in 1..Len(NodeInputs(NodeType(g, n))) :
      LinksInto(g, n, NodeInputs(NodeType(g, n))[i]) # {}

\* The guard of the special handling of the Normal channel
NormalMapNeedsBake(g, sock, l) ==
  /\ sock = "Normal"
  /\ NodeType(g, l.fn) = "NORMAL_MAP"
  /\ NoTextureOn(g, l.fn, NodeInputs("NORMAL_MAP")[2])
  /\ AnyInputLinked(g, l.fn)

\* "For all other inputs": the test that follows the Normal handling,
\* with elif in place of the second if
BSDFSocketStepElif(g, m, sock, acc) ==
  IF LinksInto(g, FirstNodeOfType(g, "BSDF_PRINCIPLED"), sock) = {} THEN acc
  ELSE
    LET l == FirstLink(g, FirstNodeOfType(g, "BSDF_PRINCIPLED"), sock)
    IN IF sock = "Normal" /\ NodeType(g, l.fn) = "NORMAL_MAP"
       THEN IF NormalMapNeedsBake(g, sock, l)
            THEN [acc EXCEPT !.channelDict = DictSet(@, sock, Entry(l))]
            ELSE acc
       ELSE IF NodeType(g, l.fn) # "TEX_IMAGE"
            THEN [acc EXCEPT !.channelDict = DictSet(@, sock, Entry(l))]
            ELSE [acc EXCEPT !.textureInputs =
                                TextureInputsRecord(@, m, sock, Entry(l))]

\* The body of the loop over principledNode.inputs
BSDFSocketStep(g, m, sock, acc) ==
  IF LinksInto(g, FirstNodeOfType(g, "BSDF_PRINCIPLED"), sock) = {} THEN acc
  ELSE
    LET l == FirstLink(g, FirstNodeOfType(g, "BSDF_PRINCIPLED"), sock)
        special ==
          IF NormalMapNeedsBake(g, sock, l)
          THEN [acc EXCEPT !.channelDict = DictSet(@, sock, Entry(l))]
          ELSE acc
    IN IF NodeType(g, l.fn) # "TEX_IMAGE"
       THEN [special EXCEPT !.channelDict = DictSet(@, sock, Entry(l))]
       ELSE [special EXCEPT !.textureInputs =
                               TextureInputsRecord(@, m, sock, Entry(l))]

\* The missing node is dereferenced
MissingNodeRaises(textureInputs) ==
  [channelDict |-> <<>>, textureInputs |-> textureInputs, raised |-> "AttributeError"]

\* return {} when the principled / material-output node is not found
MissingNodeResult(textureInputs) ==
  [channelDict |-> <<>>, textureInputs |-> textureInputs, raised |-> "none"]

RECURSIVE BSDFScan(_, _, _, _)
BSDFScan(g, m, socks, acc) ==
  IF socks = <<>> THEN acc
  ELSE BSDFScan(g, m, Tail(socks), BSDFSocketStep(g, m, Head(socks), acc))

GetBSDFBakeInputs(g, m, textureInputs) ==
  IF FirstNodeOfType(g, "BSDF_PRINCIPLED") # None
  THEN LET r == BSDFScan(g, m, NodeInputs("BSDF_PRINCIPLED"),
                         [channelDict |-> <<>>, textureInputs |-> textureInputs])
       IN [channelDict |-> r.channelDict, textureInputs |-> r.textureInputs,
           raised |-> "none"]
  ELSE MissingNodeResult(textureInputs)

\* The test of the connected node's type dropped: any linked node is a candidate
GetDisplacementBakeInputsAnyNode(g, m, textureInputs) ==
  LET outputNode == FirstNodeOfType(g, "OUTPUT_MATERIAL")
      ls == LinksInto(g, outputNode, "Displacement")
      l == FirstLink(g, outputNode, "Displacement")
  IN [channelDict |->
        IF outputNode # None /\ ls # {}
        THEN <<[key |-> "Displacement", val |-> Entry(l)]>> ELSE <<>>,
      textureInputs |-> textureInputs, raised |-> "none"]

GetDisplacementBakeInputs(g, m, textureInputs) ==
  LET outputNode == FirstNodeOfType(g, "OUTPUT_MATERIAL")
      ls == LinksInto(g, outputNode, "Displacement")
      l == FirstLink(g, outputNode, "Displacement")
      empty == [channelDict |-> <<>>, textureInputs |-> textureInputs,
                raised |-> "none"]
  IN IF outputNode = None THEN MissingNodeResult(textureInputs)
     ELSE IF ls = {} THEN empty
     ELSE IF NodeType(g, l.fn) # "DISPLACEMENT" THEN empty
     ELSE IF NoTextureOn(g, l.fn, "Height")
          THEN [empty EXCEPT !.channelDict =
                               <<[key |-> "Displacement", val |-> Entry(l)]>>]
          \* textureInputs[material.name]['Displacement'] = ...: the inner
          \* dictionary is not created here
          ELSE IF DictHas(textureInputs, m)
               THEN [empty EXCEPT !.textureInputs =
                       DictSet(@, m, DictSet(DictGet(textureInputs, m),
                                             "Displacement", Entry(l)))]
               ELSE [empty EXCEPT !.raised = "KeyError"]

(***************************************************************************)
(* The scenes the run starts from.  A material's graph is built from a     *)
(* shape: which of the principled and the material-output node exist, and  *)
(* what feeds each principled input and the Displacement input.            *)
(*   none  unlinked                 tex   an image-texture node            *)
(*   proc  an RGB-curves node       nm_*  a normal-map node whose Color    *)
(*   dn_*  a displacement node            (nm_strength: Strength) is fed   *)
(*         whose Height is fed            by nothing, a texture, a curve   *)
(*   shared  the node on Base Color                                        *)
(***************************************************************************)
Node(label, i, type) ==
  [name |-> <<label, i>>, type |-> type, select |-> FALSE, image |-> 0]

FeedNodes(i, kind) ==
  CASE kind = "none" -> <<>>
    [] kind = "tex" -> <<Node("Image Texture", i, "TEX_IMAGE")>>
    [] kind = "proc" -> <<Node("RGB Curves", i, "CURVE_RGB")>>
    [] kind = "nm_none" -> <<Node("Normal Map", i, "NORMAL_MAP")>>
    [] kind = "nm_tex" -> <<Node("Normal Map", i, "NORMAL_MAP"),
                            Node("Image Texture", 10 + i, "TEX_IMAGE")>>
    [] kind = "nm_proc" -> <<Node("Normal Map", i, "NORMAL_MAP"),
                             Node("RGB Curves", 10 + i, "CURVE_RGB")>>
    [] kind = "nm_strength" -> <<Node("Normal Map", i, "NORMAL_MAP"),
                                 Node("Value", i, "VALUE")>>
    [] kind = "dn_none" -> <<Node("Displacement", i, "DISPLACEMENT")>>
    [] kind = "dn_tex" -> <<Node("Displacement", i, "DISPLACEMENT"),
                            Node("Image Texture", 10 + i, "TEX_IMAGE")>>
    [] kind = "dn_proc" -> <<Node("Displacement", i, "DISPLACEMENT"),
                             Node("RGB Curves", 10 + i, "CURVE_RGB")>>
    [] kind = "shared" -> <<>>

FeedLinks(i, kind, tn, ts) ==
  CASE kind = "none" -> {}
    [] kind = "tex" -> {Link(<<"Image Texture", i>>, "Color", tn, ts)}
    [] kind = "proc" -> {Link(<<"RGB Curves", i>>, "Color", tn, ts)}
    [] kind = "nm_none" -> {Link(<<"Normal Map", i>>, "Normal", tn, ts)}
    [] kind = "nm_tex" ->
         {Link(<<"Normal Map", i>>, "Normal", tn, ts),
          Link(<<"Image Texture", 10 + i>>, "Color", <<"Normal Map", i>>, "Color")}
    [] kind = "nm_proc" ->
         {Link(<<"Normal Map", i>>, "Normal", tn, ts),
          Link(<<"RGB Curves", 10 + i>>, "Color", <<"Normal Map", i>>, "Color")}
    [] kind = "nm_strength" ->
         {Link(<<"Normal Map", i>>, "Normal", tn, ts),
          Link(<<"Value", i>>, "Value", <<"Normal Map", i>>, "Strength")}
    [] kind = "dn_none" -> {Link(<<"Displacement", i>>, "Displacement", tn, ts)}
    [] kind = "dn_tex" ->
         {Link(<<"Displacement", i>>, "Displacement", tn, ts),
          Link(<<"Image Texture", 10 + i>>, "Color", <<"Displacement", i>>, "Height")}
    [] kind = "dn_proc" ->
         {Link(<<"Displacement", i>>, "Displacement", tn, ts),
          Link(<<"RGB Curves", 10 + i>>, "Color", <<"Displacement", i>>, "Height")}
    [] kind = "shared" -> {Link(<<"RGB Curves", 1>>, "Color", tn, ts)}

MakeGraph(sh) ==
  LET P == [name |-> PrincipledName, type |-> "BSDF_PRINCIPLED",
            select |-> TRUE, image |-> 0]
      O == [name |-> OutputName, type |-> "OUTPUT_MATERIAL",
            select |-> FALSE, image |-> 0]
      pin == NodeInputs("BSDF_PRINCIPLED")
  IN [nodes |->
        (IF sh.hasP THEN <<P>> ELSE <<>>) \o (IF sh.hasO THEN <<O>> ELSE <<>>)
        \o FeedNodes(1, sh.feeds[1]) \o FeedNodes(2, sh.feeds[2])
        \o FeedNodes(3, sh.feeds[3]) \o FeedNodes(4, sh.disp),
      links |->
        (IF sh.hasP /\ sh.hasO
         THEN {Link(PrincipledName, "BSDF", OutputName, "Surface")} ELSE {})
        \cup UNION {FeedLinks(i, sh.feeds[i], PrincipledName, pin[i]) : i \in 1..3}
        \cup FeedLinks(4, sh.disp, OutputName, "Displacement"),
      active |-> IF sh.hasP THEN PrincipledName ELSE None]

FeedKinds == {"none", "tex", "proc"}
NormalFeedKinds == FeedKinds \cup {"nm_none", "nm_tex", "nm_proc", "nm_strength"}
DispFeedKinds == {"none", "tex", "proc", "dn_none", "dn_tex", "dn_proc"}

Shape(hasP, hasO, bc, ro, nr, dp) ==
  [hasP |-> hasP, hasO |-> hasO, feeds |-> <<bc, ro, nr>>, disp |-> dp]

\* Every wiring of one material; a missing node has nothing linked into it.
\* Each input has an upstream node of its own, but in the last wirings, where
\* the curve on Base Color feeds the Displacement input as well.
AllShapes ==
  {Shape(TRUE, TRUE, bc, ro, nr, dp) :
     bc \in FeedKinds, ro \in FeedKinds, nr \in NormalFeedKinds, dp \in DispFeedKinds}
  \cup {Shape(TRUE, FALSE, bc, ro, nr, "none") :
     bc \in FeedKinds, ro \in FeedKinds, nr \in NormalFeedKinds}
  \cup {Shape(FALSE, TRUE, "none", "none", "none", dp) : dp \in DispFeedKinds}
  \cup {Shape(FALSE, FALSE, "none", "none", "none", "none")}
  \cup {Shape(TRUE, TRUE, "proc", ro, "none", "shared") : ro \in FeedKinds}

\* The wirings of the scenes with several materials and objects.
RunShapes ==
  {Shape(TRUE, TRUE, "tex", "none", "none", "none"),
   Shape(TRUE, TRUE, "proc", "none", "none", "none"),
   Shape(TRUE, TRUE, "proc", "tex", "none", "dn_proc")}

(***************************************************************************)
(* State.                                                                  *)
(***************************************************************************)
VARIABLES
  materials,        \* bpy.data.materials: name -> [use_nodes, use_fake_user]
  graphs,           \* name -> the material's node_tree
  graphs0,          \* history: the node trees before the run
  objects,          \* bpy.data.objects: name -> type, slots, visibility, ...
  objects0,         \* history: the objects before the run
  filepath0,        \* history: bpy.data.filepath before the run
  images,           \* bpy.data.images created by the run, in creation order
  filepath,         \* bpy.data.filepath ("" when the file was never saved)
  saves,            \* the files written by save_mainfile / save_as_mainfile
  fileFormat,       \* self.fileFormat
  nonTextureInputs, \* self.nonTextureInputs
  textureInputs,    \* self.textureInputs
  pc,               \* where the run is
  raised,           \* the exception that ended the run, or "none"
  validMaterials,   \* the tuple of getAllMaterials
  ai,               \* analyzeShaderConnections: index into validMaterials
  mi,               \* bakeAllMaterials: index of the material of the worklist
  ci,               \* bakeAllMaterials: index of the channel of the material
  isSuccess,        \* the local of bakeAllMaterials
  failedMaterials,  \* the local of bakeAllMaterials
  multipleUsers,    \* the local of bakeAllMaterials
  objectData,       \* setupBake: the names of the objects it unhid
  bakeImageNode,    \* setupBake: the node created for the target
  message,          \* the text of the last showMessage
  copied,           \* the materials whose textures were copied
  bakeLog           \* history: the targets passed to setupBake, with outcome

vars == <<materials, graphs, graphs0, objects, objects0, filepath0, images, filepath, saves, fileFormat,
          nonTextureInputs, textureInputs, pc, raised, validMaterials, ai, mi,
          ci, isSuccess, failedMaterials, multipleUsers, objectData,
          bakeImageNode, message, copied, bakeLog>>

Resolution == 1024

\* the menu's default and two formats isFileFormatValid rejects
FileFormats == {"PNG", "OPEN_EXR", "GIF"}

Materials == DOMAIN materials

\* bpy.data.materials and bpy.data.objects enumerate by name
MatOrder == LET In(m) == m \in DOMAIN materials IN SelectSeq(MatNames, In)

ObjOrder == LET In(o) == o \in DOMAIN objects IN SelectSeq(ObjNames, In)

\* material.users: the slots that hold it, plus one for the fake user
Users(m) ==
  Cardinality({o \in DOMAIN objects : m \in objects[o].slots})
  + (IF materials[m].use_fake_user THEN 1 ELSE 0)

\* The mesh test of isOnMesh dropped
IsValidMaterialAnyObject(m) ==
  /\ materials[m].use_nodes
  /\ Users(m) > 0
  /\ ~ materials[m].use_fake_user
  /\ \E o \in DOMAIN objects : m \in objects[o].slots

IsValidMaterial(m) ==
  LET hasNodes == materials[m].use_nodes
      hasUsers == Users(m) > 0
      isNotFake == ~ materials[m].use_fake_user
      isOnMesh == \E o \in DOMAIN objects :
                     objects[o].type = "MESH" /\ m \in objects[o].slots
  IN hasNodes /\ hasUsers /\ isNotFake /\ isOnMesh

GetAllMaterials == SelectSeq(MatOrder, IsValidMaterial)

GetObjectsFromMaterial(m) ==
  LET Uses(o) == /\ objects[o].inScene
                 /\ m \in objects[o].slots
                 /\ objects[o].type = "MESH"
  IN SelectSeq(ObjOrder, Uses)

\* Every format is taken as valid
IsFileFormatValidAny(f) == TRUE

IsFileFormatValid(f) == f \in {"JPEG", "PNG", "TIFF"}

\* A path is a directory and the tokens of the file's base name.
NoFile == [dir |-> "", stem |-> <<>>]

SavedFile == [dir |-> "project", stem |-> <<"scene">>]

ExportDir == "project/scene_export"

(***************************************************************************)
(* Init: the scene before "Bake and Export" is pressed.                    *)
(***************************************************************************)
Object(type, slots, hidden) ==
  [type |-> type, slots |-> slots, inScene |-> TRUE,
   hide_viewport |-> FALSE, hide |-> FALSE, hide_render |-> hidden,
   select |-> FALSE]

\* One valid material in every wiring, on one visible mesh.
GraphScenes ==
  {[materials |-> [m \in {MatNames[1]} |->
                     [use_nodes |-> TRUE, use_fake_user |-> FALSE]],
    graphs |-> [m \in {MatNames[1]} |-> MakeGraph(sh)],
    objects |-> [o \in {ObjNames[1]} |-> Object("MESH", {MatNames[1]}, FALSE)]]
   : sh \in AllShapes}

\* Several materials, valid or not, on several objects.
RunMaterials == {MatNames[i] : i \in 1..MaxMaterials}

RunObjects == {ObjNames[i] : i \in 1..MaxObjects}

\* A visible mesh holds one material.  A mesh that holds all of them is
\* hidden in render; one that holds the first only is hidden by hide_set and
\* in the viewport; one is in the file but not in the current scene.  A
\* curve holds all of them and is selected.
ObjectChoices ==
  [i \in 1..MaxMaterials |-> Object("MESH", {MatNames[i]}, FALSE)]
  \o <<Object("MESH", RunMaterials, TRUE),
       [Object("MESH", {MatNames[1]}, FALSE) EXCEPT !.hide = TRUE,
                                                   !.hide_viewport = TRUE],
       [Object("MESH", RunMaterials, FALSE) EXCEPT !.inScene = FALSE],
       [Object("CURVE", RunMaterials, FALSE) EXCEPT !.select = TRUE]>>

\* The objects differ by their names only: one layout for each multiset of
\* choices.
ObjectLayouts ==
  {[o \in RunObjects |-> ObjectChoices[f[CHOOSE i \in 1..MaxObjects : ObjNames[i] = o]]] :
     f \in {h \in [1..MaxObjects -> 1..Len(ObjectChoices)] :
              \A i \in 1..(MaxObjects - 1) : h[i] <= h[i + 1]}}

\* A material has its flags right and one of the wirings, or, but for the
\* first one, has one flag against it.
FlaggedChoices ==
  {[shape |-> sh, use_nodes |-> TRUE, use_fake_user |-> FALSE] : sh \in RunShapes}

MaterialChoices(m) ==
  IF m = MatNames[1] THEN FlaggedChoices
  ELSE FlaggedChoices
       \cup {[shape |-> Shape(TRUE, TRUE, "proc", "none", "none", "none"),
              use_nodes |-> FALSE, use_fake_user |-> FALSE],
             [shape |-> Shape(TRUE, TRUE, "proc", "none", "none", "none"),
              use_nodes |-> TRUE, use_fake_user |-> TRUE]}

RunScenes ==
  {[materials |-> [m \in RunMaterials |->
                     [use_nodes |-> mats[m].use_nodes,
                      use_fake_user |-> mats[m].use_fake_user]],
    graphs |-> [m \in RunMaterials |-> MakeGraph(mats[m].shape)],
    objects |-> objs]
   : mats \in {f \in [RunMaterials -> MaterialChoices(MatNames[2])] :
                  f[MatNames[1]] \in MaterialChoices(MatNames[1])},
     objs \in ObjectLayouts}

Init ==
  /\ \E sc \in GraphScenes \cup RunScenes :
       /\ materials = sc.materials
       /\ graphs = sc.graphs
       /\ graphs0 = sc.graphs
       /\ objects = sc.objects
       /\ objects0 = sc.objects
  /\ filepath \in {NoFile, SavedFile}
  /\ filepath0 = filepath
  /\ images = <<>>
  /\ saves = <<>>
  /\ fileFormat = "unset"
  /\ nonTextureInputs = <<>>
  /\ textureInputs = <<>>
  /\ pc = "start"
  /\ raised = "none"
  /\ validMaterials = <<>>
  /\ ai = 1
  /\ mi = 1
  /\ ci = 1
  /\ isSuccess = FALSE
  /\ failedMaterials = <<>>
  /\ multipleUsers = <<>>
  /\ objectData = <<>>
  /\ bakeImageNode = None
  /\ message = "none"
  /\ copied = {}
  /\ bakeLog = <<>>

(***************************************************************************)
(* bakeAllMaterials, up to the analysis.                                   *)
(***************************************************************************)
\* The backup is written over the file it is a backup of
BackupPathSame(p) == p

\* saveSceneBackup: <name>_BAKED.blend in the export directory
BackupPath(p) == [dir |-> ExportDir, stem |-> Append(p.stem, "_BAKED")]

\* The save goes ahead whatever the file path
SaveSceneNeverRaises(p) == FALSE

\* saveScene: no file path, no save
SaveSceneRaises(p) == p = NoFile

BakeAllMaterialsBegin ==
  /\ pc = "start"
  /\ \E fmt \in FileFormats :
       /\ fileFormat' = fmt
       /\ IF ~ IsFileFormatValid(fmt)
          THEN /\ pc' = "aborted"
               /\ raised' = "ValueError"
               /\ UNCHANGED <<message, saves, filepath, validMaterials>>
          ELSE /\ message' = "Baking materials..."
               /\ IF SaveSceneRaises(filepath)
                  THEN /\ pc' = "aborted"
                       /\ raised' = "RuntimeError"
                       /\ UNCHANGED <<saves, filepath, validMaterials>>
                  ELSE /\ saves' = saves \o <<filepath, BackupPath(filepath)>>
                       /\ filepath' = BackupPath(filepath)
                       /\ validMaterials' = GetAllMaterials
                       /\ pc' = "analyze"
                       /\ UNCHANGED raised
  /\ UNCHANGED <<materials, graphs, graphs0, objects0, filepath0,
                 objects, images, nonTextureInputs,
                 textureInputs, ai, mi, ci, isSuccess, failedMaterials,
                 multipleUsers, objectData, bakeImageNode, copied, bakeLog>>

(***************************************************************************)
(* analyzeShaderConnections: one step per valid material.                  *)
(***************************************************************************)
\* A material without candidates is entered with an empty dictionary
MergeBakeDataKeepEmpty(nti, m, dd, bd) ==
  DictSet(nti, m, DictUpdate(DictUpdate(
      IF DictHas(nti, m) THEN DictGet(nti, m) ELSE <<>>, dd), bd))

MergeBakeData(nti, m, dd, bd) ==
  IF dd # <<>> \/ bd # <<>>
  THEN LET n0 == IF DictHas(nti, m) THEN nti ELSE DictSet(nti, m, <<>>)
           n1 == IF dd # <<>>
                 THEN DictSet(n0, m, DictUpdate(DictGet(n0, m), dd)) ELSE n0
           n2 == IF bd # <<>>
                 THEN DictSet(n1, m, DictUpdate(DictGet(n1, m), bd)) ELSE n1
       IN IF DictGet(n2, m) = <<>> THEN DictDel(n2, m) ELSE n2
  ELSE nti

AnalyzeMaterial ==
  /\ pc = "analyze"
  /\ ai <= Len(validMaterials)
  /\ LET m == validMaterials[ai]
         d == GetDisplacementBakeInputs(graphs[m], m, textureInputs)
         b == GetBSDFBakeInputs(graphs[m], m, d.textureInputs)
     IN IF d.raised # "none"
        THEN /\ pc' = "aborted"
             /\ raised' = d.raised
             /\ UNCHANGED <<nonTextureInputs, textureInputs, ai>>
        ELSE IF b.raised # "none"
        THEN /\ pc' = "aborted"
             /\ raised' = b.raised
             /\ textureInputs' = d.textureInputs
             /\ UNCHANGED <<nonTextureInputs, ai>>
        ELSE /\ textureInputs' = b.textureInputs
             /\ nonTextureInputs' =
                  MergeBakeData(nonTextureInputs, m, d.channelDict, b.channelDict)
             /\ ai' = ai + 1
             /\ UNCHANGED <<pc, raised>>
  /\ UNCHANGED <<materials, graphs, graphs0, objects0, filepath0,
                 objects, images, filepath, saves, fileFormat,
                 validMaterials, mi, ci, isSuccess, failedMaterials,
                 multipleUsers, objectData, bakeImageNode, message, copied,
                 bakeLog>>

AnalyzeReturn ==
  /\ pc = "analyze"
  /\ ai > Len(validMaterials)
  /\ pc' = "material"
  /\ mi' = 1
  /\ multipleUsers' = <<>>
  /\ failedMaterials' = <<>>
  /\ UNCHANGED <<materials, graphs, graphs0, objects0, filepath0,
                 objects, images, filepath, saves, fileFormat,
                 nonTextureInputs, textureInputs, raised, validMaterials, ai, ci,
                 isSuccess, objectData, bakeImageNode, message, copied, bakeLog>>

(***************************************************************************)
(* The loop over the worklist.                                             *)
(***************************************************************************)
CurMaterial == nonTextureInputs[mi].key

CurChannelDict == nonTextureInputs[mi].val

CurChannel == CurChannelDict[ci].key

CurNodeData == CurChannelDict[ci].val

\* A material with a single object is recorded as well
RecordMultipleUsersAny(mu, m) ==
  IF Len(GetObjectsFromMaterial(m)) > 0
  THEN DictSet(mu, m, GetObjectsFromMaterial(m))
  ELSE mu

\* if len(objects) > 1: multipleUsers[materialName] = [obj.name for obj in objects]
RecordMultipleUsers(mu, m) ==
  IF Len(GetObjectsFromMaterial(m)) > 1
  THEN DictSet(mu, m, GetObjectsFromMaterial(m))
  ELSE mu

NextMaterial ==
  /\ pc = "material"
  /\ mi <= Len(nonTextureInputs)
  /\ multipleUsers' = RecordMultipleUsers(multipleUsers, CurMaterial)
  /\ ci' = 1
  /\ pc' = "setup"
  /\ UNCHANGED <<materials, graphs, graphs0, objects0, filepath0,
                 objects, images, filepath, saves, fileFormat,
                 nonTextureInputs, textureInputs, raised, validMaterials, ai, mi,
                 isSuccess, failedMaterials, objectData, bakeImageNode, message,
                 copied, bakeLog>>

BakeLoopExit ==
  /\ pc = "material"
  /\ mi > Len(nonTextureInputs)
  /\ pc' = "copy"
  /\ UNCHANGED <<materials, graphs, graphs0, objects0, filepath0,
                 objects, images, filepath, saves, fileFormat,
                 nonTextureInputs, textureInputs, raised, validMaterials, ai, mi,
                 ci, isSuccess, failedMaterials, multipleUsers, objectData,
                 bakeImageNode, message, copied, bakeLog>>

(***************************************************************************)
(* setupBake, up to the host's bake call.                                  *)
(***************************************************************************)
CreateBakeImage(m, channel) ==
  [name |-> <<m, channel, "baked">>, width |-> Resolution, height |-> Resolution,
   baked |-> FALSE, saved |-> FALSE, file_format |-> "unset",
   filepath_raw |-> <<>>]

\* A name as the sequence of its words and of the characters between them
Tokens(name) ==
  CASE name = "Mat A" -> <<"Mat", " ", "A">>
    [] name = "Mat_A" -> <<"Mat", "_", "A">>
    [] name = "Mat_B" -> <<"Mat", "_", "B">>
    [] name = "Mat_B " -> <<"Mat", "_", "B", " ">>
    [] name = "Base Color" -> <<"Base", " ", "Color">>
    [] OTHER -> <<name>>

\* str.rstrip()
RECURSIVE RStrip(_)
RStrip(t) ==
  IF t # <<>> /\ t[Len(t)] = " " THEN RStrip(SubSeq(t, 1, Len(t) - 1)) ELSE t

\* str.replace(' ', '_')
ReplaceSpaces(t) == [i \in 1..Len(t) |-> IF t[i] = " " THEN "_" ELSE t[i]]

\* exportMaterialDirectory: the directory of the material under exportDir
ExportMaterialDirectory(m) == <<ExportDir, ReplaceSpaces(RStrip(Tokens(m)))>>

\* saveChannelBake: bakeImage.filepath_raw
SaveChannelBake(m, channel, format, exportDir) ==
  [dir |-> exportDir,
   file |-> ReplaceSpaces(RStrip(Tokens(m))) \o <<"_">>
            \o ReplaceSpaces(Tokens(channel)) \o <<".", format>>]

CreateBakeImageNode(g, image) ==
  LET g1 == NodesNew(g, "Image Texture", "TEX_IMAGE")
  IN [g1 EXCEPT !.nodes[Len(g1.nodes)].image = image]

IsHidden(o) ==
  objects[o].hide \/ objects[o].hide_viewport \/ objects[o].hide_render

BakeObjects(m) ==
  {GetObjectsFromMaterial(m)[i] : i \in 1..Len(GetObjectsFromMaterial(m))}

\* objectData['hidden']
HiddenBakeObjects(m) == SelectSeq(GetObjectsFromMaterial(m), IsHidden)

\* The objects of the material are selected and unhidden, the selection of
\* the other objects is left as it is
SelectBakeObjectsOnly(m) ==
  [o \in DOMAIN objects |->
     IF o \in BakeObjects(m)
     THEN [objects[o] EXCEPT !.hide_viewport = FALSE, !.hide = FALSE,
                             !.hide_render = FALSE, !.select = TRUE]
     ELSE objects[o]]

SelectBakeObjects(m) ==
  [o \in DOMAIN objects |->
     IF o \in BakeObjects(m)
     THEN IF IsHidden(o)
          THEN [objects[o] EXCEPT !.hide_viewport = FALSE, !.hide = FALSE,
                                  !.hide_render = FALSE, !.select = TRUE]
          ELSE [objects[o] EXCEPT !.select = TRUE]
     ELSE [objects[o] EXCEPT !.select = FALSE]]

\* The material-output node exists
CreateBakeNetwork(g, channel, nodeName, outputSocketName) ==
  LET out == FirstNodeOfType(g, "OUTPUT_MATERIAL")
      cleared == LinksClear(g, out, "Surface")
      bsdf == FirstNodeOfType(g, "BSDF_PRINCIPLED")
  IN IF channel = "Normal"
     THEN IF bsdf # None THEN LinksNew(cleared, bsdf, "BSDF", out, "Surface")
          ELSE cleared
     ELSE LinksNew(cleared, nodeName, outputSocketName, out, "Surface")

\* The node is made active, the selection is left as it is
SetActiveBakeImageNode(g, node) == [g EXCEPT !.active = node]

SetSelectedBakeImageNode(g, node) ==
  [g EXCEPT !.nodes = [i \in 1..Len(g.nodes) |-> [g.nodes[i] EXCEPT !.select = FALSE]],
            !.active = node]

SetupBake ==
  /\ pc = "setup"
  /\ LET m == CurMaterial
         g1 == CreateBakeImageNode(graphs[m], Len(images) + 1)
         node == NewNodeName(graphs[m], "Image Texture")
         g2 == CreateBakeNetwork(g1, CurChannel, CurNodeData[1], CurNodeData[2])
     IN /\ images' = Append(images, CreateBakeImage(m, CurChannel))
        /\ objects' = SelectBakeObjects(m)
        /\ objectData' = HiddenBakeObjects(m)
        /\ bakeImageNode' = node
        /\ bakeLog' = Append(bakeLog, [material |-> m, channel |-> CurChannel,
                                       type |-> "none", result |-> "setup"])
        /\ IF FirstNodeOfType(g1, "OUTPUT_MATERIAL") = None
           THEN \* materialOutputNode.inputs on None
                /\ graphs' = [graphs EXCEPT ![m] = g1]
                /\ pc' = "aborted"
                /\ raised' = "AttributeError"
           ELSE /\ graphs' = [graphs EXCEPT ![m] = SetSelectedBakeImageNode(g2, node)]
                /\ pc' = "bake"
                /\ UNCHANGED raised
  /\ UNCHANGED <<materials, graphs0, objects0, filepath0,
                 filepath, saves, fileFormat, nonTextureInputs,
                 textureInputs, validMaterials, ai, mi, ci, isSuccess,
                 failedMaterials, multipleUsers, message, copied>>

(***************************************************************************)
(* setupBake, from the host's bake call on.  The host call either returns  *)
(* or raises RuntimeError.                                                 *)
(***************************************************************************)
\* The baked image is linked to the destination input without an
\* intermediate node
ConnectBakedTextureDirect(g, node, channel) ==
  IF channel = "Displacement"
  THEN LinksNew(g, node, "Color", FirstNodeOfType(g, "OUTPUT_MATERIAL"), "Displacement")
  ELSE LinksNew(g, node, "Color", FirstNodeOfType(g, "BSDF_PRINCIPLED"), channel)

ConnectBakedTexture(g, node, channel) ==
  LET principledNode == FirstNodeOfType(g, "BSDF_PRINCIPLED")
      outputNode == FirstNodeOfType(g, "OUTPUT_MATERIAL")
  IN IF channel = "Normal"
     THEN LET nm == NewNodeName(g, "Normal Map")
              g1 == NodesNew(g, "Normal Map", "NORMAL_MAP")
          IN LinksNew(LinksNew(g1, node, "Color", nm, "Color"),
                      nm, "Normal", principledNode, "Normal")
     ELSE IF channel = "Displacement"
     THEN LET dn == NewNodeName(g, "Displacement")
              g1 == NodesNew(g, "Displacement", "DISPLACEMENT")
          IN LinksNew(LinksNew(g1, node, "Color", dn, "Height"),
                      dn, "Displacement", outputNode, "Displacement")
     ELSE IF \E i \in 1..Len(NodeInputs("BSDF_PRINCIPLED")) :
                NodeInputs("BSDF_PRINCIPLED")[i] = channel
     THEN LinksNew(g, node, "Color", principledNode, channel)
     ELSE g

\* The objects are left as the bake found them
RestoreHiddenSkipped(hidden) == objects

\* for objName in objectData['hidden']: hide in viewport, by hide_set, in render
RestoreHidden(hidden) ==
  [o \in DOMAIN objects |->
     IF \E i \in 1..Len(hidden) : hidden[i] = o
     THEN [objects[o] EXCEPT !.hide_viewport = TRUE, !.hide = TRUE,
                             !.hide_render = TRUE]
     ELSE objects[o]]

\* the loop over channelDict.items(): the next channel, or the end of the material
AfterChannel == IF ci < Len(CurChannelDict) THEN "setup" ELSE "endmaterial"

\* The bake type is always EMIT
GetBakeTypeEmit(channel) == "EMIT"

\* bakeTypes.get(channel, 'EMIT')
GetBakeType(channel) == IF channel = "Normal" THEN "NORMAL" ELSE "EMIT"

\* bakeChannel: the host's bake is called with the channel's bake type
BakeChannel(channel) ==
  [bakeLog EXCEPT ![Len(bakeLog)].type = GetBakeType(channel)]

SetLastResult(r) == [BakeChannel(CurChannel) EXCEPT ![Len(bakeLog)].result = r]

BakeSucceeds ==
  /\ pc = "bake"
  /\ LET m == CurMaterial
         img == NodeOf(graphs[m], bakeImageNode).image
     IN /\ images' = [images EXCEPT
                        ![img].baked = TRUE, ![img].saved = TRUE,
                        ![img].file_format = fileFormat,
                        ![img].filepath_raw =
                           SaveChannelBake(m, CurChannel, fileFormat,
                                           ExportMaterialDirectory(m))]
        /\ graphs' = [graphs EXCEPT
                        ![m] = ConnectBakedTexture(graphs[m], bakeImageNode, CurChannel)]
  /\ isSuccess' = TRUE
  /\ objects' = RestoreHidden(objectData)
  /\ bakeLog' = SetLastResult("ok")
  /\ ci' = ci + 1
  /\ pc' = AfterChannel
  /\ UNCHANGED <<materials, graphs0, objects0, filepath0,
                 filepath, saves, fileFormat, nonTextureInputs,
                 textureInputs, raised, validMaterials, ai, mi, failedMaterials,
                 multipleUsers, objectData, bakeImageNode, message, copied>>

\* The RuntimeError of the bake leaves setupBake
BakeErrorUncaught(next) == [pc |-> "aborted", raised |-> "RuntimeError"]

\* except RuntimeError as e: isSuccess = False, and setupBake goes on
BakeErrorCaught(next) == [pc |-> next, raised |-> "none"]

BakeRaises ==
  /\ pc = "bake"
  /\ isSuccess' = FALSE
  /\ objects' = RestoreHidden(objectData)
  /\ bakeLog' = SetLastResult("failed")
  /\ ci' = ci + 1
  /\ pc' = BakeErrorCaught(AfterChannel).pc
  /\ raised' = BakeErrorCaught(AfterChannel).raised
  /\ UNCHANGED <<materials, graphs, graphs0, objects0, filepath0,
                 images, filepath, saves, fileFormat,
                 nonTextureInputs, textureInputs, validMaterials, ai, mi,
                 failedMaterials, multipleUsers, objectData, bakeImageNode,
                 message, copied>>

(***************************************************************************)
(* After the channels of a material: isSuccess is the last channel's.      *)
(***************************************************************************)
\* Surface is left as the last bake had it
ConnectBSDFSkipped(g) == g

ConnectBSDFToMaterialOutput(g) ==
  LinksNew(g, FirstNodeOfType(g, "BSDF_PRINCIPLED"), "BSDF",
           FirstNodeOfType(g, "OUTPUT_MATERIAL"), "Surface")

FinishMaterial ==
  /\ pc = "endmaterial"
  /\ IF isSuccess
     THEN IF \/ FirstNodeOfType(graphs[CurMaterial], "BSDF_PRINCIPLED") = None
             \/ FirstNodeOfType(graphs[CurMaterial], "OUTPUT_MATERIAL") = None
          THEN \* principledNode.outputs on None
               /\ pc' = "aborted"
               /\ raised' = "AttributeError"
               /\ UNCHANGED <<graphs, failedMaterials, mi>>
          ELSE /\ graphs' = [graphs EXCEPT ![CurMaterial] =
                               ConnectBSDFToMaterialOutput(graphs[CurMaterial])]
               /\ mi' = mi + 1
               /\ pc' = "material"
               /\ UNCHANGED <<raised, failedMaterials>>
     ELSE /\ failedMaterials' = Append(failedMaterials, CurMaterial)
          /\ mi' = mi + 1
          /\ pc' = "material"
          /\ UNCHANGED <<raised, graphs>>
  /\ UNCHANGED <<materials, graphs0, objects0, filepath0,
                 objects, images, filepath, saves, fileFormat,
                 nonTextureInputs, textureInputs, validMaterials, ai, ci,
                 isSuccess, multipleUsers, objectData, bakeImageNode, message,
                 copied, bakeLog>>

(***************************************************************************)
(* The copy of the textures.  copyTextures is the constructor's flag;      *)
(* present holds the materials of which some texture has its node, its     *)
(* image and its file on disk: copyTextureToDirectory returns newPath,     *)
(* which only a copied texture binds.                                      *)
(***************************************************************************)
RECURSIVE CopyLoop(_, _, _)
CopyLoop(todo, present, done) ==
  IF todo = <<>> THEN [copied |-> done, raised |-> "none"]
  ELSE IF Head(todo).key \in present
       THEN CopyLoop(Tail(todo), present, done \cup {Head(todo).key})
       ELSE [copied |-> done, raised |-> "UnboundLocalError"]

CopyTextures ==
  /\ pc = "copy"
  /\ \E copyTextures \in BOOLEAN, present \in SUBSET DictKeys(textureInputs) :
       LET r == IF copyTextures THEN CopyLoop(textureInputs, present, {})
                ELSE [copied |-> {}, raised |-> "none"]
       IN /\ copied' = r.copied
          /\ raised' = r.raised
          /\ pc' = IF r.raised = "none" THEN "summary" ELSE "aborted"
  /\ UNCHANGED <<materials, graphs, graphs0, objects0, filepath0,
                 objects, images, filepath, saves, fileFormat,
                 nonTextureInputs, textureInputs, validMaterials, ai, mi, ci,
                 isSuccess, failedMaterials, multipleUsers, objectData,
                 bakeImageNode, message, bakeLog>>

(***************************************************************************)
(* The end of the run: the notification and the save.                      *)
(***************************************************************************)
MsgMultiple == "Some materials baked onto multiple objects (Check console)"
MsgBoth == "Some materials failed to bake or had issues with multiple users (Check console)"
MsgFailed == "Some materials failed to bake (Check console)"
MsgSuccess == "All materials baked successfully"

SummaryMessage(failed, multiple) ==
  IF multiple # <<>> THEN MsgMultiple
  ELSE IF failed # <<>> /\ multiple # <<>> THEN MsgBoth
  ELSE IF failed # <<>> THEN MsgFailed
  ELSE MsgSuccess

ShowSummary ==
  /\ pc = "summary"
  /\ message' = SummaryMessage(failedMaterials, multipleUsers)
  /\ pc' = "save"
  /\ UNCHANGED <<materials, graphs, graphs0, objects0, filepath0,
                 objects, images, filepath, saves, fileFormat,
                 nonTextureInputs, textureInputs, raised, validMaterials, ai, mi,
                 ci, isSuccess, failedMaterials, multipleUsers, objectData,
                 bakeImageNode, copied, bakeLog>>

FinalSave ==
  /\ pc = "save"
  /\ saves' = Append(saves, filepath)
  /\ pc' = "done"
  /\ UNCHANGED <<materials, graphs, graphs0, objects0, filepath0,
                 objects, images, filepath, fileFormat,
                 nonTextureInputs, textureInputs, raised, validMaterials, ai, mi,
                 ci, isSuccess, failedMaterials, multipleUsers, objectData,
                 bakeImageNode, message, copied, bakeLog>>

Next ==
  \/ BakeAllMaterialsBegin
  \/ AnalyzeMaterial
  \/ AnalyzeReturn
  \/ NextMaterial
  \/ BakeLoopExit
  \/ SetupBake
  \/ BakeSucceeds
  \/ BakeRaises
  \/ FinishMaterial
  \/ CopyTextures
  \/ ShowSummary
  \/ FinalSave

Spec == Init /\ [][Next]_vars

(***************************************************************************)
(* Properties.                                                             *)
(*                                                                         *)
(* graphs0 is the graph the Inspector read: the analysis ends before the   *)
(* first graph mutation, and nonTextureInputs does not change after it.    *)
(***************************************************************************)
\* m went through the loop body of analyzeShaderConnections
Analysed(m) == \E i \in 1..Len(validMaterials) : validMaterials[i] = m /\ i < ai

\* analyzeShaderConnections raised while it analysed m
AnalysisRaisedOn(m) ==
  /\ pc = "aborted"
  /\ raised \in {"KeyError", "AttributeError"}
  /\ bakeLog = <<>>
  /\ ai <= Len(validMaterials)
  /\ validMaterials[ai] = m

\* nonTextureInputs.get(m, {})
BakeChannels(m) ==
  IF DictHas(nonTextureInputs, m) THEN DictGet(nonTextureInputs, m) ELSE <<>>

TextureChannels(m) ==
  IF DictHas(textureInputs, m) THEN DictGet(textureInputs, m) ELSE <<>>

HasPrincipled(g) == \E i \in 1..Len(g.nodes) : g.nodes[i].type = "BSDF_PRINCIPLED"

HasOutput(g) == \E i \in 1..Len(g.nodes) : g.nodes[i].type = "OUTPUT_MATERIAL"

PrincipledSockets == {"Base Color", "Roughness", "Normal"}

\* the node and the socket that feed the input s of node n
Upstream(g, n, s) == CHOOSE l \in g.links : l.tn = n /\ l.ts = s

Linked(g, n, s) == \E l \in g.links : l.tn = n /\ l.ts = s

FedByType(g, n, s, t) == Linked(g, n, s) /\ NodeType(g, Upstream(g, n, s).fn) = t

\* the principled inputs linked to something that is no image texture
ExpectedBSDF(g) ==
  IF HasPrincipled(g)
  THEN {s \in PrincipledSockets :
          Linked(g, PrincipledName, s) /\ ~ FedByType(g, PrincipledName, s, "TEX_IMAGE")}
  ELSE {}

\* Displacement traces through a displacement node whose Height is no texture
ExpectedDisplacement(g) ==
  IF /\ HasOutput(g)
     /\ FedByType(g, OutputName, "Displacement", "DISPLACEMENT")
     /\ ~ FedByType(g, Upstream(g, OutputName, "Displacement").fn, "Height", "TEX_IMAGE")
  THEN {"Displacement"}
  ELSE {}

\* C1: for every analysed material whose principled Normal input is fed by a
\* normal-map node, 'Normal' is a bake candidate if and only if the
\* normal-map's Color input is linked and not linked from an image texture.
C1_NormalCandidateIffProceduralColor ==
  \A m \in Materials :
    (/\ Analysed(m)
     /\ HasPrincipled(graphs0[m])
     /\ FedByType(graphs0[m], PrincipledName, "Normal", "NORMAL_MAP"))
    => (DictHas(BakeChannels(m), "Normal")
        <=> (/\ Linked(graphs0[m], Upstream(graphs0[m], PrincipledName, "Normal").fn, "Color")
             /\ ~ FedByType(graphs0[m], Upstream(graphs0[m], PrincipledName, "Normal").fn,
                            "Color", "TEX_IMAGE")))

\* the materials of which some channel's bake raised
MaterialsWithFailure ==
  {bakeLog[i].material : i \in {j \in 1..Len(bakeLog) : bakeLog[j].result = "failed"}}

SeqElems(q) == {q[i] : i \in 1..Len(q)}

\* C2: in the final summary, every material one of whose channels raised in
\* the host bake is listed in failedMaterials, whatever the position of the
\* failing channel and the outcome of the other channels.
C2_FailedMaterialListed ==
  pc \in {"summary", "save", "done"} => MaterialsWithFailure \subseteq SeqElems(failedMaterials)

\* the worklist, flattened in iteration order
RECURSIVE Flatten(_)
Flatten(d) ==
  IF d = <<>> THEN <<>>
  ELSE [i \in 1..Len(Head(d).val) |-> <<Head(d).key, Head(d).val[i].key>>]
       \o Flatten(Tail(d))

TargetsPassed == [i \in 1..Len(bakeLog) |-> <<bakeLog[i].material, bakeLog[i].channel>>]

SomeBakeFailed == \E i \in 1..Len(bakeLog) : bakeLog[i].result = "failed"

\* How far the run is: grows lexicographically with the phase, the material
\* of the worklist and the channel of the material.
Progress ==
  CASE pc = "material" -> 20 * mi
    [] pc = "setup" -> 20 * mi + 2 * ci
    [] pc = "bake" -> 20 * mi + 2 * ci + 1
    [] pc = "endmaterial" -> 20 * mi + 2 * ci
    [] pc = "copy" -> 1000
    [] pc = "summary" -> 1001
    [] pc = "save" -> 1002
    [] OTHER -> 1003

C4_FailureAndMultiUserDistinguished ==
  (pc \in {"save", "done"} /\ failedMaterials # <<>> /\ multipleUsers # <<>>)
  => message # MsgMultiple

AllLinkedInputsTextured(g) ==
  /\ HasPrincipled(g)
  /\ \A s \in PrincipledSockets :
       Linked(g, PrincipledName, s) => FedByType(g, PrincipledName, s, "TEX_IMAGE")

ChannelsRecordedAsTextures(m) ==
  \A s \in PrincipledSockets :
    Linked(graphs0[m], PrincipledName, s)
    => /\ DictHas(TextureChannels(m), s)
       /\ DictGet(TextureChannels(m), s) =
            <<Upstream(graphs0[m], PrincipledName, s).fn,
              Upstream(graphs0[m], PrincipledName, s).fs>>

\* C6, as stated: a material whose linked principled inputs are all fed by
\* image textures has no bake mapping after the analysis, and its channels
\* are recorded in textureInputs.
C6_TexturedMaterialHasNoMapping ==
  \A m \in Materials :
    (Analysed(m) /\ AllLinkedInputsTextured(graphs0[m]))
    => ~ DictHas(nonTextureInputs, m) /\ ChannelsRecordedAsTextures(m)

\* C6, amended: for such a material getBSDFBakeInputs returns an empty
\* mapping; after the analysis no principled input of it is a key of its
\* bake mapping and each linked one is recorded in textureInputs; its bake
\* mapping is empty unless its Displacement input is a candidate, and then
\* holds 'Displacement' alone.
C6_TexturedInputsNotBaked ==
  \A m \in Materials :
    AllLinkedInputsTextured(graphs0[m])
    => /\ GetBSDFBakeInputs(graphs0[m], m, <<>>).channelDict = <<>>
       /\ Analysed(m)
          => /\ \A s \in PrincipledSockets : ~ DictHas(BakeChannels(m), s)
             /\ DictKeys(BakeChannels(m)) = ExpectedDisplacement(graphs0[m])
             /\ ChannelsRecordedAsTextures(m)

\* all inputs textured, and a Displacement candidate in the mapping
C6_Witness ==
  \E m \in Materials :
    /\ Analysed(m)
    /\ AllLinkedInputsTextured(graphs0[m])
    /\ \A s \in PrincipledSockets : Linked(graphs0[m], PrincipledName, s)
    /\ DictKeys(TextureChannels(m)) = PrincipledSockets
    /\ DictKeys(BakeChannels(m)) = {"Displacement"}

\* C7: 'Displacement' is a bake candidate only when the material-output's
\* Displacement input is linked to a displacement node whose Height input has
\* no image-texture source; the candidate names that node and its output.
C7_DisplacementOnlyThroughProceduralNode ==
  \A m \in Materials :
    DictHas(BakeChannels(m), "Displacement")
    => /\ ExpectedDisplacement(graphs0[m]) = {"Displacement"}
       /\ DictGet(BakeChannels(m), "Displacement") =
            <<Upstream(graphs0[m], OutputName, "Displacement").fn,
              Upstream(graphs0[m], OutputName, "Displacement").fs>>

C7_Witness ==
  \E m \in Materials :
    /\ Analysed(m)
    /\ FedByType(graphs0[m], OutputName, "Displacement", "DISPLACEMENT")
    /\ FedByType(graphs0[m], <<"Displacement", 4>>, "Height", "CURVE_RGB")
    /\ DictGet(BakeChannels(m), "Displacement") = <<<<"Displacement", 4>>, "Displacement">>

\* C8: without a principled node getBSDFBakeInputs returns an empty mapping
\* and does not raise; without a material-output node
\* getDisplacementBakeInputs returns an empty mapping and does not raise, so
\* the analysis of such a material never raises; the mapping of the
\* material is what the other half yields.
C8_MissingNodeYieldsEmptyHalf ==
  \A m \in Materials :
    /\ ~ HasPrincipled(graphs0[m])
       => /\ GetBSDFBakeInputs(graphs0[m], m, textureInputs).channelDict = <<>>
          /\ GetBSDFBakeInputs(graphs0[m], m, textureInputs).raised = "none"
          /\ (Analysed(m) \/ AnalysisRaisedOn(m))
             => DictKeys(BakeChannels(m)) = ExpectedDisplacement(graphs0[m])
    /\ ~ HasOutput(graphs0[m])
       => /\ GetDisplacementBakeInputs(graphs0[m], m, textureInputs).channelDict = <<>>
          /\ GetDisplacementBakeInputs(graphs0[m], m, textureInputs).raised = "none"
          /\ ~ AnalysisRaisedOn(m)
          /\ Analysed(m) => DictKeys(BakeChannels(m)) = ExpectedBSDF(graphs0[m])

\* no material-output node, and the principled half contributed
C8_Witness ==
  \E m \in Materials :
    /\ Analysed(m)
    /\ ~ HasOutput(graphs0[m])
    /\ HasPrincipled(graphs0[m])
    /\ DictKeys(BakeChannels(m)) = {"Base Color", "Normal"}

FourConditions(m) ==
  /\ materials[m].use_nodes
  /\ Users(m) > 0
  /\ ~ materials[m].use_fake_user
  /\ \E o \in DOMAIN objects : objects[o].type = "MESH" /\ m \in objects[o].slots

\* C9: every material of the worklist uses nodes, has users, has no fake
\* user and is in a slot of a mesh; a material failing one of the four is
\* never analysed, never mutated and never baked.
C9_WorklistMaterialsValid ==
  \A m \in Materials :
    /\ DictHas(nonTextureInputs, m) => FourConditions(m)
    /\ ~ FourConditions(m)
       => /\ \A i \in 1..Len(validMaterials) : validMaterials[i] # m
          /\ ~ DictHas(textureInputs, m)
          /\ graphs[m] = graphs0[m]
          /\ \A i \in 1..Len(bakeLog) : bakeLog[i].material # m
          /\ \A i \in 1..Len(images) : images[i].name[1] # m

\* the run ended with one material baked and one held by a curve only
C9_Witness ==
  /\ pc = "done"
  /\ \E m \in Materials : \E n \in Materials :
       /\ DictHas(nonTextureInputs, m)
       /\ \E i \in 1..Len(bakeLog) : bakeLog[i].material = m
       /\ materials[n].use_nodes
       /\ ~ materials[n].use_fake_user
       /\ Users(n) > 0
       /\ ~ FourConditions(n)

\* C10: every key of nonTextureInputs maps to a non-empty dictionary; an
\* analysed material is a key exactly when it has a candidate, and its
\* dictionary holds the Displacement and the principled candidates.
C10_MappingNonEmptyUnion ==
  /\ \A i \in 1..Len(nonTextureInputs) : nonTextureInputs[i].val # <<>>
  /\ \A m \in Materials :
       Analysed(m)
       => /\ DictKeys(BakeChannels(m)) =
               ExpectedDisplacement(graphs0[m]) \cup ExpectedBSDF(graphs0[m])
          /\ DictHas(nonTextureInputs, m)
             <=> (ExpectedDisplacement(graphs0[m]) \cup ExpectedBSDF(graphs0[m]) # {})

\* one valid material without candidates, one with both kinds
C10_Witness ==
  /\ pc = "material"
  /\ \E m \in Materials : \E n \in Materials :
       /\ Analysed(m)
       /\ ~ DictHas(nonTextureInputs, m)
       /\ Analysed(n)
       /\ DictKeys(BakeChannels(n)) = {"Displacement", "Base Color"}

(***************************************************************************)
(* The bake of a target.  The host's bake is invoked in the state          *)
(* pc = "bake"; the k-th target of the run has the k-th image.             *)
(***************************************************************************)
\* the bake type the channel calls for
ExpectedBakeType(channel) == IF channel = "Normal" THEN "NORMAL" ELSE "EMIT"

\* the link the channel's bake is taken through
ExpectedSurfaceLink(channel, nodeData) ==
  IF channel = "Normal"
  THEN Link(PrincipledName, "BSDF", OutputName, "Surface")
  ELSE Link(nodeData[1], nodeData[2], OutputName, "Surface")

\* C11: whenever the host's bake is invoked for a target, the Surface input
\* of the material-output node has exactly one link: from the principled
\* node's BSDF output for 'Normal', from the target's source node and socket
\* for every other channel; and the bake is called with type NORMAL for
\* 'Normal' and EMIT for every other channel.
C11_BakeNetworkAndType ==
  /\ pc = "bake"
     => LinksInto(graphs[CurMaterial], OutputName, "Surface")
          = {ExpectedSurfaceLink(CurChannel, CurNodeData)}
  /\ \A i \in 1..Len(bakeLog) :
       bakeLog[i].result # "setup"
       => bakeLog[i].type = ExpectedBakeType(bakeLog[i].channel)

\* 'Normal' is about to be baked through the BSDF, after a channel baked
\* with EMIT through its source, which then fed Surface
C11_Witness ==
  /\ pc = "bake"
  /\ CurChannel = "Normal"
  /\ Link(PrincipledName, "BSDF", OutputName, "Surface") \in graphs[CurMaterial].links
  /\ Len(bakeLog) > 1
  /\ bakeLog[Len(bakeLog) - 1].type = "EMIT"
  /\ bakeLog[Len(bakeLog) - 1].material = CurMaterial

\* C12: whenever the host's bake is invoked for a target, the active node of
\* the material's graph is the image-texture node created for the target
\* (the last node created, absent from the graph before the run), the node
\* is bound to the image created for the target (the last image created,
\* bound to no other node), the image is named <material>_<channel>_baked
\* and is square of the configured resolution, and no node of the graph is
\* selected.
C12_ActiveNodeAndImage ==
  pc = "bake"
  => LET m == CurMaterial
         g == graphs[m]
         last == g.nodes[Len(g.nodes)]
     IN /\ g.active = bakeImageNode
        /\ last.name = bakeImageNode
        /\ last.type = "TEX_IMAGE"
        /\ bakeImageNode \notin NodeNames(graphs0[m])
        /\ \A i \in 1..(Len(g.nodes) - 1) : g.nodes[i].name # bakeImageNode
        /\ Len(images) = Len(bakeLog)
        /\ last.image = Len(images)
        /\ \A n \in Materials : \A i \in 1..Len(graphs[n].nodes) :
             graphs[n].nodes[i].image = Len(images)
             => n = m /\ i = Len(g.nodes)
        /\ images[Len(images)].name = <<m, CurChannel, "baked">>
        /\ images[Len(images)].width = Resolution
        /\ images[Len(images)].height = Resolution
        /\ \A i \in 1..Len(g.nodes) : ~ g.nodes[i].select

\* the second target of a material whose graph had a selected node
C12_Witness ==
  /\ pc = "bake"
  /\ ci = 2
  /\ Len(images) = 2
  /\ \E i \in 1..Len(graphs0[CurMaterial].nodes) : graphs0[CurMaterial].nodes[i].select
  /\ images[2].name = <<CurMaterial, "Base Color", "baked">>

\* the mesh objects of the current scene that hold m in a slot
SceneMeshesOf(m) ==
  {o \in DOMAIN objects :
     objects[o].inScene /\ objects[o].type = "MESH" /\ m \in objects[o].slots}

\* C13: whenever the host's bake is invoked for a material, the selected
\* objects are exactly the mesh objects of the current scene whose slots
\* hold the material, and none of them is hidden in the viewport, by
\* hide_set or in render.
C13_SelectionAtBake ==
  pc = "bake"
  => /\ {o \in DOMAIN objects : objects[o].select} = SceneMeshesOf(CurMaterial)
     /\ \A o \in SceneMeshesOf(CurMaterial) :
          /\ ~ objects[o].hide_viewport
          /\ ~ objects[o].hide
          /\ ~ objects[o].hide_render

\* a mesh that was hidden is selected and visible; a curve that was selected
\* is not selected any more
C13_Witness ==
  /\ pc = "bake"
  /\ \E o \in SceneMeshesOf(CurMaterial) :
       objects0[o].hide_render /\ ~ objects0[o].select
  /\ \E o \in DOMAIN objects :
       /\ objects[o].type = "CURVE"
       /\ CurMaterial \in objects[o].slots
       /\ objects0[o].select
       /\ ~ objects[o].select

\* o was hidden, in one of the three ways, before the run
HiddenBefore(o) ==
  objects0[o].hide \/ objects0[o].hide_viewport \/ objects0[o].hide_render

\* setupBake returned for the last target passed to it
SetupBakeReturned ==
  bakeLog # <<>> /\ bakeLog[Len(bakeLog)].result \in {"ok", "failed"}

\* C14: once setupBake has returned for a target, the bake having succeeded
\* or raised, every object that was hidden when selectBakeObjects ran is
\* hidden and every object that was visible is visible.  (Each return
\* leaves the objects hidden as they were before the run, so hidden when
\* selectBakeObjects ran is hidden before the run.)
C14_VisibilityRestored ==
  SetupBakeReturned
  => /\ \A o \in DOMAIN objects : IsHidden(o) <=> HiddenBefore(o)
     /\ \A i \in 1..Len(objectData) : IsHidden(objectData[i])

\* the bake raised for a material held by a mesh that was hidden and by one
\* that was visible
C14_Witness ==
  /\ bakeLog # <<>>
  /\ bakeLog[Len(bakeLog)].result = "failed"
  /\ \E o \in SceneMeshesOf(bakeLog[Len(bakeLog)].material) :
       HiddenBefore(o) /\ IsHidden(o)
  /\ \E o \in SceneMeshesOf(bakeLog[Len(bakeLog)].material) :
       ~ HiddenBefore(o) /\ ~ IsHidden(o)

(***************************************************************************)
(* The rewrite of the graph after a bake.                                  *)
(***************************************************************************)
\* the image-texture node created for the k-th target of the run
TargetImageNode(k) ==
  LET g == graphs[bakeLog[k].material]
  IN g.nodes[CHOOSE i \in 1..Len(g.nodes) : g.nodes[i].image = k].name

\* the source recorded for the k-th target
TargetSource(k) ==
  DictGet(DictGet(nonTextureInputs, bakeLog[k].material), bakeLog[k].channel)

SpecialChannels == {"Normal", "Displacement"}

\* the j-th material of the worklist went through the end of its loop body
Finished(j) == j < mi

\* every channel of the j-th material of the worklist was baked with success
AllChannelsBaked(j) ==
  \A c \in DictKeys(nonTextureInputs[j].val) :
    \E k \in 1..Len(bakeLog) :
      /\ bakeLog[k].material = nonTextureInputs[j].key
      /\ bakeLog[k].channel = c
      /\ bakeLog[k].result = "ok"

\* C15: after the successful bake of a channel other than 'Normal' and
\* 'Displacement', the principled input of the channel has exactly one link,
\* from the Color output of the image-texture node created for the target
\* (a node the graph did not have, so the former link is replaced); and once
\* all channels of a material were baked with success and the material is
\* done, the only link into Surface is from the principled node's BSDF.
C15_RewireRoundTrip ==
  /\ \A k \in 1..Len(bakeLog) :
       (bakeLog[k].result = "ok" /\ bakeLog[k].channel \notin SpecialChannels)
       => LET m == bakeLog[k].material
          IN /\ LinksInto(graphs[m], PrincipledName, bakeLog[k].channel)
                  = {Link(TargetImageNode(k), "Color", PrincipledName, bakeLog[k].channel)}
             /\ NodeType(graphs[m], TargetImageNode(k)) = "TEX_IMAGE"
             /\ TargetImageNode(k) \notin NodeNames(graphs0[m])
             /\ TargetImageNode(k) # TargetSource(k)[1]
  /\ \A j \in 1..Len(nonTextureInputs) :
       (Finished(j) /\ AllChannelsBaked(j))
       => LinksInto(graphs[nonTextureInputs[j].key], OutputName, "Surface")
            = {Link(PrincipledName, "BSDF", OutputName, "Surface")}

\* the run ended with Base Color and Roughness of a material baked and
\* rewired, and its Surface fed by the BSDF again
C15_Witness ==
  /\ pc = "done"
  /\ Len(bakeLog) = 2
  /\ bakeLog[1].channel = "Base Color" /\ bakeLog[1].result = "ok"
  /\ bakeLog[2].channel = "Roughness" /\ bakeLog[2].result = "ok"
  /\ bakeLog[2].material = bakeLog[1].material
  /\ LinksInto(graphs0[bakeLog[1].material], PrincipledName, "Base Color")
       = {Link(<<"RGB Curves", 1>>, "Color", PrincipledName, "Base Color")}
  /\ Link(PrincipledName, "BSDF", OutputName, "Surface")
       \in graphs[bakeLog[1].material].links
  /\ TargetImageNode(1) # TargetImageNode(2)

\* the node and input a special channel is spliced into, and the type,
\* input and output of the intermediate node
Splice(channel) ==
  IF channel = "Normal"
  THEN [tn |-> PrincipledName, ts |-> "Normal", type |-> "NORMAL_MAP",
        in |-> "Color", out |-> "Normal"]
  ELSE [tn |-> OutputName, ts |-> "Displacement", type |-> "DISPLACEMENT",
        in |-> "Height", out |-> "Displacement"]

\* C16: after the successful bake of 'Normal' (of 'Displacement'), the
\* Normal input of the principled node (the Displacement input of the
\* material-output node) has exactly one link, from the Normal
\* (Displacement) output of a normal-map (displacement) node the graph did
\* not have before the run, whose Color (Height) input has exactly one link,
\* from the Color output of the image-texture node created for the target;
\* the original normal-map (displacement) node does not feed the input any
\* more.
C16_SpecialChannelSplice ==
  \A k \in 1..Len(bakeLog) :
    (bakeLog[k].result = "ok" /\ bakeLog[k].channel \in SpecialChannels)
    => LET m == bakeLog[k].material
           g == graphs[m]
           sp == Splice(bakeLog[k].channel)
       IN /\ Cardinality(LinksInto(g, sp.tn, sp.ts)) = 1
          /\ LET l == FirstLink(g, sp.tn, sp.ts)
             IN /\ l.fs = sp.out
                /\ NodeType(g, l.fn) = sp.type
                /\ l.fn \notin NodeNames(graphs0[m])
                /\ l.fn # TargetSource(k)[1]
                /\ LinksInto(g, l.fn, sp.in)
                     = {Link(TargetImageNode(k), "Color", l.fn, sp.in)}
                /\ NodeType(g, TargetImageNode(k)) = "TEX_IMAGE"
                /\ TargetImageNode(k) \notin NodeNames(graphs0[m])
          /\ \A l \in g.links :
               l.fn = TargetSource(k)[1] => ~ (l.tn = sp.tn /\ l.ts = sp.ts)

\* 'Displacement' and 'Normal' of one material were both baked and spliced
C16_Witness ==
  /\ Len(bakeLog) = 2
  /\ bakeLog[1].channel = "Displacement" /\ bakeLog[1].result = "ok"
  /\ bakeLog[2].channel = "Normal" /\ bakeLog[2].result = "ok"
  /\ NodeType(graphs0[bakeLog[1].material], TargetSource(1)[1]) = "DISPLACEMENT"
  /\ NodeType(graphs0[bakeLog[2].material], TargetSource(2)[1]) = "NORMAL_MAP"

\* the nodes a graph had before the run are its first nodes, unchanged in
\* name and type
NodesKept ==
  \A m \in Materials :
    /\ Len(graphs[m].nodes) >= Len(graphs0[m].nodes)
    /\ \A i \in 1..Len(graphs0[m].nodes) :
         /\ graphs[m].nodes[i].name = graphs0[m].nodes[i].name
         /\ graphs[m].nodes[i].type = graphs0[m].nodes[i].type

\* the links from the sources recorded for the j-th material of the worklist
\* into the principled node and the material-output node
SourceLinks(j) ==
  {l \in graphs[nonTextureInputs[j].key].links :
     /\ l.tn \in {PrincipledName, OutputName}
     /\ \E e \in 1..Len(nonTextureInputs[j].val) :
          /\ l.fn = nonTextureInputs[j].val[e].val[1]
          /\ l.fs = nonTextureInputs[j].val[e].val[2]}

\* C17, as stated: no node is ever deleted; and once all channels of a
\* material were baked with success and the material is done, no source
\* recorded in its bake mapping feeds an input of the principled node, the
\* Surface input or the Displacement input.
C17_NoNodeDeletedSourcesUnlinked ==
  /\ NodesKept
  /\ \A j \in 1..Len(nonTextureInputs) :
       (Finished(j) /\ AllChannelsBaked(j)) => SourceLinks(j) = {}

\* C17, amended: no node is ever deleted; and once all channels of a
\* material were baked with success and the material is done, no source
\* recorded in its bake mapping feeds an input of the principled node or
\* the Surface input, and none feeds the Displacement input unless it fed
\* it before the run with 'Displacement' no channel of the mapping (the
\* input is fed directly, not through a displacement node).
C17_NoNodeDeletedBakedInputsUnlinked ==
  /\ NodesKept
  /\ \A j \in 1..Len(nonTextureInputs) :
       (Finished(j) /\ AllChannelsBaked(j))
       => \A l \in SourceLinks(j) :
            /\ l.tn = OutputName
            /\ l.ts = "Displacement"
            /\ l \in graphs0[nonTextureInputs[j].key].links
            /\ ~ DictHas(nonTextureInputs[j].val, "Displacement")
            /\ NodeType(graphs0[nonTextureInputs[j].key], l.fn) # "DISPLACEMENT"

\* the run ended with a material's Displacement and Base Color baked: its
\* graph has the nodes it had and new ones, the two sources are among them,
\* fed the material-output and the principled node before the run, and feed
\* them no more
C17_Witness ==
  /\ pc = "done"
  /\ \E j \in 1..Len(nonTextureInputs) :
       LET m == nonTextureInputs[j].key
       IN /\ AllChannelsBaked(j)
          /\ DictKeys(nonTextureInputs[j].val) = {"Displacement", "Base Color"}
          /\ Len(graphs[m].nodes) > Len(graphs0[m].nodes)
          /\ SourceLinks(j) = {}
          /\ \A e \in 1..Len(nonTextureInputs[j].val) :
               /\ nonTextureInputs[j].val[e].val[1] \in NodeNames(graphs[m])
               /\ \E l \in graphs0[m].links :
                    /\ l.fn = nonTextureInputs[j].val[e].val[1]
                    /\ l.tn \in {PrincipledName, OutputName}

(***************************************************************************)
(* The life of a bake target.  A target of the worklist is planned; its    *)
(* graph is mutated when setupBake has made its node and network (result   *)
(* "setup"); it is baked, with success ("ok") or failure ("failed"), when  *)
(* the host's bake has returned or raised.                                 *)
(***************************************************************************)
\* the input the k-th target's channel is read from and spliced into
Destination(k) ==
  IF bakeLog[k].channel = "Displacement"
  THEN [tn |-> OutputName, ts |-> "Displacement"]
  ELSE [tn |-> PrincipledName, ts |-> bakeLog[k].channel]

\* the image is saved and its node feeds the destination, directly or
\* through the intermediate node of a special channel
Rewired(k) ==
  LET g == graphs[bakeLog[k].material]
      d == Destination(k)
  IN /\ bakeLog[k].result = "ok"
     /\ images[k].saved
     /\ Cardinality(LinksInto(g, d.tn, d.ts)) = 1
     /\ LET l == FirstLink(g, d.tn, d.ts)
        IN IF bakeLog[k].channel \in SpecialChannels
           THEN LinksInto(g, l.fn, Splice(bakeLog[k].channel).in)
                  = {Link(TargetImageNode(k), "Color", l.fn,
                          Splice(bakeLog[k].channel).in)}
           ELSE l.fn = TargetImageNode(k)

\* the bake raised and the destination is still fed by the original source
SkippedOnFailure(k) ==
  LET g == graphs[bakeLog[k].material]
      d == Destination(k)
  IN /\ bakeLog[k].result = "failed"
     /\ ~ images[k].saved
     /\ LinksInto(g, d.tn, d.ts)
          = {Link(TargetSource(k)[1], TargetSource(k)[2], d.tn, d.ts)}

Terminal(k) == Rewired(k) \/ SkippedOnFailure(k)

\* the worklist is made and the run is over
RunOverAfterAnalysis ==
  /\ pc \in {"done", "aborted"}
  /\ raised \notin {"ValueError", "RuntimeError", "KeyError"}

\* C18: the targets are taken from the worklist in its order, each once; a
\* target is mutated only when every target before it is terminal, Rewired
\* or SkippedOnFailure; and when the run is over every target of the
\* worklist is terminal.
C18_TargetLifecycle ==
  /\ Len(TargetsPassed) <= Len(Flatten(nonTextureInputs))
  /\ TargetsPassed = SubSeq(Flatten(nonTextureInputs), 1, Len(TargetsPassed))
  /\ \A k \in 1..(Len(bakeLog) - 1) : Terminal(k)
  /\ (bakeLog # <<>> /\ bakeLog[Len(bakeLog)].result = "setup")
     => pc = "bake"
  /\ RunOverAfterAnalysis
     => /\ Len(bakeLog) = Len(Flatten(nonTextureInputs))
        /\ \A k \in 1..Len(bakeLog) : Terminal(k)

(***************************************************************************)
(* The configuration errors.                                               *)
(***************************************************************************)
\* nothing of the run has happened: no image, no graph read or mutated, no
\* save or backup of the scene, no bake, no object touched
NothingDone ==
  /\ images = <<>>
  /\ graphs = graphs0
  /\ objects = objects0
  /\ saves = <<>>
  /\ bakeLog = <<>>
  /\ validMaterials = <<>>
  /\ ai = 1
  /\ nonTextureInputs = <<>>
  /\ textureInputs = <<>>

\* C19: a file format other than JPEG, PNG and TIFF ends the run with
\* ValueError before anything is done: no image is created, no graph is read
\* or mutated, the scene is neither saved nor backed up, and the host's bake
\* is not invoked.
C19_InvalidFormatRaisesFirst ==
  (fileFormat \notin {"unset", "JPEG", "PNG", "TIFF"})
  => /\ pc = "aborted"
     /\ raised = "ValueError"
     /\ NothingDone
     /\ message = "none"

\* the baker was made with format GIF on a saved file with valid materials
C19_Witness ==
  /\ fileFormat = "GIF"
  /\ raised = "ValueError"
  /\ filepath = SavedFile
  /\ GetAllMaterials # <<>>

\* the file the run started with
SourceFile == filepath0

\* C20 as stated: with a scene file that was never saved, the run ends with
\* RuntimeError and nothing done, whatever the file format.
C20_UnsavedFileRaisesRuntimeError ==
  (SourceFile = NoFile /\ pc # "start")
  => /\ pc = "aborted"
     /\ raised = "RuntimeError"
     /\ NothingDone

\* C20: with a scene file that was never saved and a valid file format, the
\* run ends with RuntimeError right after the opening message, with no
\* analysis, no graph mutated, no image, no bake, no save and no backup; with
\* an invalid file format as well, the run ends the same way with the
\* ValueError of the format check, which comes first.
C20_UnsavedFileAborts ==
  (SourceFile = NoFile /\ pc # "start")
  => /\ pc = "aborted"
     /\ raised = (IF IsFileFormatValid(fileFormat)
                  THEN "RuntimeError" ELSE "ValueError")
     /\ message = (IF IsFileFormatValid(fileFormat)
                   THEN "Baking materials..." ELSE "none")
     /\ NothingDone

\* the baker ran with format PNG on a never-saved scene with valid materials
C20_Witness ==
  /\ filepath = NoFile
  /\ fileFormat = "PNG"
  /\ raised = "RuntimeError"
  /\ GetAllMaterials # <<>>

(***************************************************************************)
(* The multi-user advisory.                                                *)
(***************************************************************************)
\* the j-th material of the worklist entered the loop body of bakeAllMaterials
Entered(j) ==
  \/ j < mi
  \/ j = mi /\ pc \in {"setup", "bake", "endmaterial"}
  \/ \E k \in 1..Len(bakeLog) : bakeLog[k].material = nonTextureInputs[j].key

\* every channel of the j-th material of the worklist went through the
\* host's bake, which returned or raised
AllChannelsTried(j) ==
  \A c \in DictKeys(nonTextureInputs[j].val) :
    \E k \in 1..Len(bakeLog) :
      /\ bakeLog[k].material = nonTextureInputs[j].key
      /\ bakeLog[k].channel = c
      /\ bakeLog[k].type = ExpectedBakeType(c)
      /\ bakeLog[k].result \in {"ok", "failed"}

SavedImages == {k \in 1..Len(images) : images[k].saved}

\* C22: every image the run saved is in a directory of its material under
\* the export directory, with the run's format as extension, and no two
\* images saved for distinct targets (distinct material names or distinct
\* channels) have the same file path.
C22_OneFilePerTarget ==
  /\ \A k \in SavedImages :
       /\ Len(images[k].filepath_raw.dir) = 2
       /\ images[k].filepath_raw.dir[1] = ExportDir
       /\ images[k].filepath_raw.file[Len(images[k].filepath_raw.file)] = fileFormat
  /\ \A k \in SavedImages : \A l \in SavedImages :
       <<bakeLog[k].material, bakeLog[k].channel>>
         # <<bakeLog[l].material, bakeLog[l].channel>>
       => images[k].filepath_raw # images[l].filepath_raw

\* the positions of saves at which the file the run started with was written
SourceSaves == {i \in 1..Len(saves) : saves[i] = SourceFile}

\* C23: the file the run started with is written once, as the first save of
\* the run and before any graph is changed, and never again: from the backup
\* on the current file is <name>_BAKED in the export directory, every later
\* save goes to it, no save is made in a step that changes a graph, and a run
\* that ends has saved the source, the backup and the final scene, in that
\* order.
C23_SourceSavedOnce ==
  /\ [](/\ Cardinality(SourceSaves) <= 1
        /\ saves # <<>>
           => /\ SourceSaves = {1}
              /\ Len(saves) >= 2
              /\ \A i \in 2..Len(saves) : saves[i] = BackupPath(SourceFile)
              /\ BackupPath(SourceFile) # SourceFile
              /\ filepath = BackupPath(SourceFile)
        /\ saves = <<>> => graphs = graphs0
        /\ pc = "done"
           => saves = <<SourceFile, BackupPath(SourceFile), BackupPath(SourceFile)>>)
  /\ [][graphs' # graphs => (saves' = saves /\ filepath' = filepath /\ Len(saves) >= 2)]_vars
  /\ [][saves' # saves
        => /\ graphs' = graphs
           /\ \E i \in 1..2 : SubSeq(saves', 1, Len(saves') - i) = saves
           /\ saves'[Len(saves')] = filepath']_vars

\* the run ended with a graph rewired and the three saves made
C23_Witness ==
  /\ pc = "done"
  /\ graphs # graphs0
  /\ \E k \in 1..Len(bakeLog) : bakeLog[k].result = "ok"
  /\ saves = <<SavedFile, BackupPath(SavedFile), BackupPath(SavedFile)>>

(***************************************************************************)
(* Visibility, flag by flag.                                               *)
(***************************************************************************)
\* the three visibility flags of an object
Visibility(o) ==
  <<o.hide_viewport, o.hide, o.hide_render>>

\* C24: once setupBake has returned for a target, each of the three
\* visibility flags of every object has the value it had before
\* selectBakeObjects ran; stated for the first target of a run, for which
\* that value is the one before the run.
C24_VisibilityFlagsKept ==
  (SetupBakeReturned /\ Len(bakeLog) = 1)
  => \A o \in DOMAIN objects : Visibility(objects[o]) = Visibility(objects0[o])

(***************************************************************************)
(* The graphs the final save persists.                                     *)
(***************************************************************************)
\* C25: at the final save of the run, for every material of the worklist the
\* only link into the material-output node's Surface input is from the
\* principled node's BSDF output, whichever bakes succeeded and failed.
C25_SurfaceFedByBSDFAtFinalSave ==
  pc \in {"save", "done"}
  => \A j \in 1..Len(nonTextureInputs) :
       LinksInto(graphs[nonTextureInputs[j].key], OutputName, "Surface")
         = {Link(PrincipledName, "BSDF", OutputName, "Surface")}

(***************************************************************************)
(* The analysis on a fresh baker.                                          *)
(***************************************************************************)
\* the Displacement input is fed by a displacement node with an image
\* texture on Height
TexturedDisplacement(g) ==
  /\ HasOutput(g)
  /\ FedByType(g, OutputName, "Displacement", "DISPLACEMENT")
  /\ FedByType(g, Upstream(g, OutputName, "Displacement").fn, "Height", "TEX_IMAGE")

\* C26: analyzeShaderConnections raises on no valid material that has a
\* principled node and a material-output node, whatever their wiring; and
\* once such a material is analysed, a Displacement input fed by a
\* displacement node with an image texture on Height is recorded in
\* textureInputs under 'Displacement'.
C26_AnalysisNeverRaises ==
  \A m \in Materials :
    (HasPrincipled(graphs0[m]) /\ HasOutput(graphs0[m]))
    => /\ ~ AnalysisRaisedOn(m)
       /\ (Analysed(m) /\ TexturedDisplacement(graphs0[m]))
          => DictHas(TextureChannels(m), "Displacement")

(***************************************************************************)
(* A second analysis of the graphs the run leaves.                         *)
(***************************************************************************)
\* the two halves of the Inspector on the graph of m as it is now, with the
\* textureInputs of a fresh baker
Reanalysis(m) ==
  LET d == GetDisplacementBakeInputs(graphs[m], m, <<>>)
      b == GetBSDFBakeInputs(graphs[m], m, d.textureInputs)
  IN [raised |-> IF d.raised # "none" THEN d.raised ELSE b.raised,
      candidates |-> DictKeys(d.channelDict) \cup DictKeys(b.channelDict)]

\* C27: once every channel of a material of the worklist was baked with
\* success and the material is done, the analysis of its graph by a fresh
\* Inspector ends without exception and finds no bake candidate.
C27_BakeIdempotent ==
  \A j \in 1..Len(nonTextureInputs) :
    (Finished(j) /\ AllChannelsBaked(j))
    => /\ Reanalysis(nonTextureInputs[j].key).raised = "none"
       /\ Reanalysis(nonTextureInputs[j].key).candidates = {}

(***************************************************************************)
(* The copy of the textures.                                               *)
(***************************************************************************)
\* C28: the texture-copy phase ends without exception, whichever of the
\* recorded textures have their node, their image and their file: the step
\* from the copy goes on to the summary.
C28_CopyPhaseNeverRaises ==
  [][pc = "copy" => (pc' = "summary" /\ raised' = "none")]_vars

(***************************************************************************)
(* The images the host's bake writes into: for each material held by a     *)
(* selected object, the image of the material's active node.               *)
(***************************************************************************)
\* the image bound to the active node of the graph of n, 0 when it has none
ActiveImage(n) ==
  IF graphs[n].active \in NodeNames(graphs[n])
  THEN NodeOf(graphs[n], graphs[n].active).image
  ELSE 0

\* the materials held by the selected objects
MaterialsOnSelected ==
  UNION {objects[o].slots : o \in {p \in DOMAIN objects : objects[p].select}}

\* C29: whenever the host's bake is invoked for a target, the material of
\* the target has the target's image on its active node, and no material
\* held by a selected object has on its active node an image created for an
\* earlier target of the run.
C29_BakeWritesOwnImageOnly ==
  pc = "bake"
  => /\ ActiveImage(CurMaterial) = Len(images)
     /\ \A n \in MaterialsOnSelected : ActiveImage(n) \notin 1..(Len(images) - 1)

(***************************************************************************)
(* The objects of the data and the objects of the scene.                   *)
(***************************************************************************)
\* the mesh objects of the data that hold m in a slot
DataMeshesOf(m) ==
  {o \in DOMAIN objects : objects[o].type = "MESH" /\ m \in objects[o].slots}

\* C30: every material of the worklist is held by a mesh object of the
\* current scene, as it is by one of the data, and whenever the host's bake
\* is invoked some mesh object holding the target's material is selected.
C30_SomeMeshSelectedAtBake ==
  /\ \A j \in 1..Len(nonTextureInputs) :
       /\ DataMeshesOf(nonTextureInputs[j].key) # {}
       /\ SceneMeshesOf(nonTextureInputs[j].key) # {}
  /\ pc = "bake"
     => \E o \in DataMeshesOf(CurMaterial) : objects[o].select

====
